---- MODULE Spec2Model ----
(***************************************************************************)
(* A model of src/app.py, the BMW Z3 price dashboard: one script that is   *)
(* re-executed from top to bottom on every user interaction.  A run loads  *)
(* data.csv through a memoized loader, renders the sidebar controls,       *)
(* filters the frame, shows the key metrics, fits the trend line, groups   *)
(* by model year and prepares the detail table.  A failure anywhere in the *)
(* run is caught by the two except clauses at the bottom of the script.    *)
(***************************************************************************)
EXTENDS Integers, Sequences, FiniteSets, TLC

VARIABLES
    source,          \* data.csv in the directory: [present, rows]
    cache,           \* st.cache_data's memo of load_data():
                     \* [loaded, value, writes], writes counting the stores
    pc,              \* position of the script run
    raised,          \* exception that ended the run ("none" when none)
    shown,           \* st.error message on screen ("none" when none)
    df,              \* the run's frame returned by load_data()
    widgets,         \* session state of the five sidebar controls
    df_filtered,     \* the filtered frame
    date_num,        \* column df_filtered['date_num'] (<<>> while absent)
    summary,         \* the four st.metric values (<<>> until computed)
    trend,           \* polyfit's coefficients (<<>> when no fit was made)
    prix_par_annee,  \* the grouped frame of the bar chart
    df_display,      \* the frame handed to st.dataframe
    steps            \* computations completed by the current run, in order

vars == <<source, cache, pc, raised, shown, df, widgets, df_filtered,
          date_num, summary, trend, prix_par_annee, df_display, steps>>

\* Longest data.csv (in rows) the model reads.
MaxRows == 2

----------------------------------------------------------------------------
(* Cells.  A CSV cell read by pandas is a number, NaN, or (in an object    *)
(* column) a string; a parsed date is a Timestamp or NaT.                  *)

Num(n) == [tag |-> "int", val |-> n]
NaN == [tag |-> "nan", val |-> 0]
Str == [tag |-> "str", val |-> 0]

Date(y, m, d) == [tag |-> "date", y |-> y, m |-> m, d |-> d]
NaT == [tag |-> "nat", y |-> 0, m |-> 0, d |-> 0]

\* Text of a date cell, one character per element; <<>> is an empty cell.
Txt_15_01_2024 == <<"1", "5", "/", "0", "1", "/", "2", "0", "2", "4">>
Txt_01_02_2024 == <<"0", "1", "/", "0", "2", "/", "2", "0", "2", "4">>
Txt_iso == <<"2", "0", "2", "4", "-", "0", "1", "-", "1", "5">>
Txt_empty == <<>>

Digits == {"0", "1", "2", "3", "4", "5", "6", "7", "8", "9"}

\* Code point of a character (ASCII), for digit values and string order.
Ord(c) ==
    CASE c = "-" -> 45
      [] c = "/" -> 47
      [] c = "0" -> 48
      [] c = "1" -> 49
      [] c = "2" -> 50
      [] c = "3" -> 51
      [] c = "4" -> 52
      [] c = "5" -> 53
      [] c = "6" -> 54
      [] c = "7" -> 55
      [] c = "8" -> 56
      [] c = "9" -> 57

Chr(n) ==
    CASE n = 0 -> "0"
      [] n = 1 -> "1"
      [] n = 2 -> "2"
      [] n = 3 -> "3"
      [] n = 4 -> "4"
      [] n = 5 -> "5"
      [] n = 6 -> "6"
      [] n = 7 -> "7"
      [] n = 8 -> "8"
      [] n = 9 -> "9"

DigitVal(c) == Ord(c) - Ord("0")

IsLeap(y) == (y % 4 = 0 /\ y % 100 # 0) \/ y % 400 = 0

DaysInMonth(y, m) ==
    IF m = 2 THEN (IF IsLeap(y) THEN 29 ELSE 28)
    ELSE IF m \in {4, 6, 9, 11} THEN 30 ELSE 31

\* Whether strptime accepts the text under the format '%d/%m/%Y'.
MatchesFormat(t) ==
    /\ Len(t) = 10
    /\ t[3] = "/" /\ t[6] = "/"
    /\ \A i \in {1, 2, 4, 5, 7, 8, 9, 10} : t[i] \in Digits
    /\ LET d == 10 * DigitVal(t[1]) + DigitVal(t[2])
           m == 10 * DigitVal(t[4]) + DigitVal(t[5])
           y == 1000 * DigitVal(t[7]) + 100 * DigitVal(t[8])
                + 10 * DigitVal(t[9]) + DigitVal(t[10])
       IN  /\ m \in 1..12
           /\ y >= 1
           /\ d >= 1 /\ d <= DaysInMonth(y, m)

\* The Timestamp of a text that matches the format.
ParseDate(t) ==
    Date(1000 * DigitVal(t[7]) + 100 * DigitVal(t[8])
            + 10 * DigitVal(t[9]) + DigitVal(t[10]),
         10 * DigitVal(t[4]) + DigitVal(t[5]),
         10 * DigitVal(t[1]) + DigitVal(t[2]))

\* Series.dt.strftime('%d/%m/%Y'): zero-padded day, month and year.
Strftime(dt) ==
    << Chr(dt.d \div 10), Chr(dt.d % 10), "/",
       Chr(dt.m \div 10), Chr(dt.m % 10), "/",
       Chr(dt.y \div 1000), Chr((dt.y \div 100) % 10),
       Chr((dt.y \div 10) % 10), Chr(dt.y % 10) >>

\* Python's str order: by code point, a proper prefix first.
RECURSIVE StrLess(_, _)
StrLess(s, t) ==
    IF t = <<>> THEN FALSE
    ELSE IF s = <<>> THEN TRUE
    ELSE IF Ord(Head(s)) # Ord(Head(t)) THEN Ord(Head(s)) < Ord(Head(t))
    ELSE StrLess(Tail(s), Tail(t))

\* datetime.date order.
DateLess(a, b) ==
    \/ a.y < b.y
    \/ a.y = b.y /\ a.m < b.m
    \/ a.y = b.y /\ a.m = b.m /\ a.d < b.d

DateLeq(a, b) == a = b \/ DateLess(a, b)

\* Days since 0001-01-01 (date.toordinal), so that a difference of two
\* dates is Timedelta.days.
RECURSIVE DaysBeforeMonth(_, _)
DaysBeforeMonth(y, m) ==
    IF m = 1 THEN 0 ELSE DaysBeforeMonth(y, m - 1) + DaysInMonth(y, m - 1)

Ordinal(dt) ==
    LET y == dt.y - 1
    IN  y * 365 + y \div 4 - y \div 100 + y \div 400
        + DaysBeforeMonth(dt.y, dt.m) + dt.d

----------------------------------------------------------------------------
(* data.csv.  A raw row holds the cells the script computes with.          *)

RawRow(txt, annee, km, prix, vendeur) ==
    [date_publication |-> txt, annee |-> annee, kilometrage_km |-> km,
     prix_eur |-> prix, type_vendeur |-> vendeur]

\* Rows data.csv is built from: two well-formed listings that differ in
\* every filtered column, and one row for each way a required cell can be
\* missing or unparsable.
RowPool ==
    { RawRow(Txt_15_01_2024, 1999, 100000, Num(9000), "particulier"),
      RawRow(Txt_01_02_2024, 2000, 101000, Num(9500), "professionnel"),
      RawRow(Txt_15_01_2024, 1999, 100000, NaN, "particulier"),
      RawRow(Txt_empty, 2000, 101000, Num(9500), "professionnel"),
      RawRow(Txt_iso, 1999, 100000, Num(9000), "particulier"),
      RawRow(Txt_01_02_2024, 2000, 101000, Str, "professionnel") }

Files == UNION { [1..n -> RowPool] : n \in 0..MaxRows }

NoFrame == <<>>

----------------------------------------------------------------------------
(* Helpers on sets and sequences of integers.                              *)

Range(s) == { s[i] : i \in 1..Len(s) }

MinOf(S) == CHOOSE x \in S : \A y \in S : x <= y
MaxOf(S) == CHOOSE x \in S : \A y \in S : y <= x

RECURSIVE SumSeq(_)
SumSeq(s) == IF s = <<>> THEN 0 ELSE Head(s) + SumSeq(Tail(s))

\* The elements of a set of integers in ascending order.
RECURSIVE SortedSet(_)
SortedSet(S) ==
    IF S = {} THEN <<>> ELSE <<MinOf(S)>> \o SortedSet(S \ {MinOf(S)})

RECURSIVE Insert(_, _)
Insert(x, s) ==
    IF s = <<>> THEN <<x>>
    ELSE IF x <= Head(s) THEN <<x>> \o s
    ELSE <<Head(s)>> \o Insert(x, Tail(s))

\* A sequence of integers in ascending order, duplicates kept.
RECURSIVE SortedSeq(_)
SortedSeq(s) == IF s = <<>> THEN <<>> ELSE Insert(Head(s), SortedSeq(Tail(s)))

\* Columns of a frame.
Column(frame, col) == [i \in 1..Len(frame) |-> frame[i][col]]
Prices(frame) == [i \in 1..Len(frame) |-> frame[i].prix_eur.val]

\* A float result: NaN, or the exact quotient num / den.
Quot(num, den) == [tag |-> "num", num |-> num, den |-> den]
FloatNaN == [tag |-> "nan", num |-> 0, den |-> 1]

----------------------------------------------------------------------------
(* load_data, lines 21-31, and its memo.                                   *)

Ok(v) == [raised |-> "none", value |-> v]
Raise(e) == [raised |-> e, value |-> NoFrame]

\* pd.read_csv('data.csv'): the rows under a RangeIndex starting at 0.
read_csv(src) ==
    IF ~src.present THEN Raise("FileNotFoundError")
    ELSE Ok([i \in 1..Len(src.rows) |->
                [index |-> i - 1,
                 date_publication |-> src.rows[i].date_publication,
                 annee |-> src.rows[i].annee,
                 kilometrage_km |-> src.rows[i].kilometrage_km,
                 prix_eur |-> src.rows[i].prix_eur,
                 type_vendeur |-> src.rows[i].type_vendeur]])

\* pd.to_datetime(column, format='%d/%m/%Y') with the default
\* errors='raise': an empty cell becomes NaT, any other text that does not
\* match the format raises ValueError for the whole column.
to_datetime(frame) ==
    IF \E i \in 1..Len(frame) :
          /\ frame[i].date_publication # Txt_empty
          /\ ~MatchesFormat(frame[i].date_publication)
    THEN Raise("ValueError")
    ELSE Ok([i \in 1..Len(frame) |->
                [frame[i] EXCEPT !.date_publication =
                    IF @ = Txt_empty THEN NaT ELSE ParseDate(@)]])

\* df.dropna(subset=['prix_eur', 'date_publication']).
dropna(frame) ==
    LET Complete(row) ==
            row.prix_eur.tag # "nan" /\ row.date_publication.tag # "nat"
    IN  SelectSeq(frame, Complete)

load_data(src) ==
    LET read == read_csv(src)
    IN  IF read.raised # "none" THEN read
        ELSE LET parsed == to_datetime(read.value)
             IN  IF parsed.raised # "none" THEN parsed
                 ELSE Ok(dropna(parsed.value))

\* A variant of the memo that runs load_data, and stores, on every call.
load_data_uncached(memo, src) ==
    LET r == load_data(src)
    IN  [raised |-> r.raised, value |-> r.value,
         cache |-> IF r.raised = "none"
                   THEN [loaded |-> TRUE, value |-> r.value,
                         writes |-> memo.writes + 1]
                   ELSE memo]

\* @st.cache_data: the first successful call stores its result, every later
\* call returns the stored frame without running load_data; a call that
\* raises stores nothing.
load_data_cached(memo, src) ==
    IF memo.loaded
    THEN [raised |-> "none", value |-> memo.value, cache |-> memo]
    ELSE LET r == load_data(src)
         IN  [raised |-> r.raised, value |-> r.value,
              cache |-> IF r.raised = "none"
                        THEN [loaded |-> TRUE, value |-> r.value,
                              writes |-> memo.writes + 1]
                        ELSE memo]

----------------------------------------------------------------------------
(* The script's order and its except clauses.                              *)

\* The alternative order: grouping ahead of the trend fit.
ScriptGroupFirst ==
    <<"load", "controls", "filter", "summary", "group", "trend", "table", "done">>

\* The statements of the try block in the order the script executes them.
Script ==
    <<"load", "controls", "filter", "summary", "trend", "group", "table", "done">>

After(label) ==
    Script[(CHOOSE i \in 1..Len(Script) : Script[i] = label) + 1]

\* A handler that reports the missing file only.
HandlerMissingOnly(exc) ==
    IF exc = "FileNotFoundError" THEN "source-missing" ELSE "none"

\* Lines 282-285: the st.error message for an exception.
Handler(exc) ==
    IF exc = "FileNotFoundError" THEN "source-missing" ELSE "generic"

NoWidgets ==
    [rendered |-> FALSE, date_range |-> <<>>, annee_range |-> <<>>,
     km_range |-> <<>>, prix_range |-> <<>>, type_vendeur |-> {}]

Fail(exc) ==
    /\ pc' = "error"
    /\ raised' = exc
    /\ shown' = Handler(exc)

Continue ==
    /\ pc' = After(pc)
    /\ UNCHANGED <<raised, shown>>

----------------------------------------------------------------------------
(* Sidebar controls, lines 37-93.                                          *)

KmStep == 1000
PrixStep == 500

\* Values a slider can take: min_value, then every step up to max_value.
SliderValues(lo, hi, step) == { v \in lo..hi : (v - lo) % step = 0 }

\* A range slider returns an ordered pair of its values.
SliderRanges(lo, hi, step) ==
    { r \in SliderValues(lo, hi, step) \X SliderValues(lo, hi, step) :
        r[1] <= r[2] }

\* Dates the user picks in the calendar: those of the listings.
DateChoices(frame) == Range(Column(frame, "date_publication"))

\* st.date_input with a pair as value returns a tuple of the dates picked
\* so far: none, the first one, or both.
DateRanges(frame) ==
    UNION { [1..n -> DateChoices(frame)] : n \in 0..2 }

MinDate(frame) ==
    CHOOSE x \in DateChoices(frame) : \A y \in DateChoices(frame) : DateLeq(x, y)
MaxDate(frame) ==
    CHOOSE x \in DateChoices(frame) : \A y \in DateChoices(frame) : DateLeq(y, x)

\* The values the widgets return on a run: the defaults on the first
\* render, the session's values afterwards.  An empty frame has NaT and NaN
\* bounds and int(NaN) raises; an object price column has a text maximum
\* and int() of it raises.  A slider whose min_value and max_value coincide
\* is taken to render and to return that one range.
Controls(frame, w) ==
    IF frame = <<>> THEN [raised |-> "ValueError", value |-> w]
    ELSE IF \E i \in 1..Len(frame) : frame[i].prix_eur.tag = "str"
    THEN [raised |-> "ValueError", value |-> w]
    ELSE IF w.rendered THEN [raised |-> "none", value |-> w]
    ELSE [raised |-> "none",
          value |->
            [rendered |-> TRUE,
             date_range |-> <<MinDate(frame), MaxDate(frame)>>,
             annee_range |-> <<MinOf(Range(Column(frame, "annee"))),
                               MaxOf(Range(Column(frame, "annee")))>>,
             km_range |-> <<MinOf(Range(Column(frame, "kilometrage_km"))),
                            MaxOf(Range(Column(frame, "kilometrage_km")))>>,
             prix_range |-> <<MinOf(Range(Prices(frame))),
                              MaxOf(Range(Prices(frame)))>>,
             type_vendeur |-> Range(Column(frame, "type_vendeur"))]]

----------------------------------------------------------------------------
(* Application des filtres, lines 96-112.                                  *)

\* A variant that reads a single picked date as the one-day range.
ApplyFiltersSingleDay(frame, w) ==
    LET InDates(row) ==
            IF Len(w.date_range) = 2
            THEN /\ DateLeq(w.date_range[1], row.date_publication)
                 /\ DateLeq(row.date_publication, w.date_range[2])
            ELSE IF Len(w.date_range) = 1
            THEN row.date_publication = w.date_range[1]
            ELSE TRUE
        Others(row) ==
            /\ row.annee >= w.annee_range[1]
            /\ row.annee <= w.annee_range[2]
            /\ row.kilometrage_km >= w.km_range[1]
            /\ row.kilometrage_km <= w.km_range[2]
            /\ row.prix_eur.val >= w.prix_range[1]
            /\ row.prix_eur.val <= w.prix_range[2]
            /\ row.type_vendeur \in w.type_vendeur
    IN  SelectSeq(SelectSeq(frame, InDates), Others)

\* A variant whose price mask is exclusive at the upper bound.
ApplyFiltersExclusive(frame, w) ==
    LET InDates(row) ==
            /\ DateLeq(w.date_range[1], row.date_publication)
            /\ DateLeq(row.date_publication, w.date_range[2])
        Others(row) ==
            /\ row.annee >= w.annee_range[1]
            /\ row.annee <= w.annee_range[2]
            /\ row.kilometrage_km >= w.km_range[1]
            /\ row.kilometrage_km <= w.km_range[2]
            /\ row.prix_eur.val >= w.prix_range[1]
            /\ row.prix_eur.val < w.prix_range[2]
            /\ row.type_vendeur \in w.type_vendeur
        dated == IF Len(w.date_range) = 2 THEN SelectSeq(frame, InDates)
                 ELSE frame
    IN  SelectSeq(dated, Others)

\* The date mask is applied only when date_range holds two dates; the mask
\* on the four other columns is applied to its result.
ApplyFilters(frame, w) ==
    LET InDates(row) ==
            /\ DateLeq(w.date_range[1], row.date_publication)
            /\ DateLeq(row.date_publication, w.date_range[2])
        Others(row) ==
            /\ row.annee >= w.annee_range[1]
            /\ row.annee <= w.annee_range[2]
            /\ row.kilometrage_km >= w.km_range[1]
            /\ row.kilometrage_km <= w.km_range[2]
            /\ row.prix_eur.val >= w.prix_range[1]
            /\ row.prix_eur.val <= w.prix_range[2]
            /\ row.type_vendeur \in w.type_vendeur
        dated == IF Len(w.date_range) = 2 THEN SelectSeq(frame, InDates)
                 ELSE frame
    IN  SelectSeq(dated, Others)

----------------------------------------------------------------------------
(* Statistiques principales, lines 115-129.                                *)

\* Series.mean(): NaN for an empty series.
Mean(s) == IF s = <<>> THEN FloatNaN ELSE Quot(SumSeq(s), Len(s))

\* Series.median(): the middle value, the mean of the two middle values for
\* an even length, NaN for an empty series.
Median(s) ==
    LET o == SortedSeq(s)
        n == Len(s)
    IN  IF n = 0 THEN FloatNaN
        ELSE IF n % 2 = 1 THEN Quot(o[(n + 1) \div 2], 1)
        ELSE Quot(o[n \div 2] + o[n \div 2 + 1], 2)

\* The values handed to the four st.metric calls.
Summarize(view) ==
    [count |-> Len(view),
     mean_prix |-> Mean(Prices(view)),
     median_prix |-> Median(Prices(view)),
     mean_km |-> Mean(Column(view, "kilometrage_km"))]

----------------------------------------------------------------------------
(* Ligne de tendance, lines 157-171.                                       *)

\* Line 159: days between each date and the earliest date of the view.
DateNum(view) ==
    [i \in 1..Len(view) |->
        Ordinal(view[i].date_publication) - Ordinal(MinDate(view))]

Products(x, y) == [i \in 1..Len(x) |-> x[i] * y[i]]

\* np.polyfit(x, y, 1).  polyfit divides each column of the Vandermonde
\* matrix by its norm; when every x is 0 the norm of the x column is 0, the
\* column becomes NaN, and lstsq on it either raises LinAlgError (SVD did
\* not converge) or returns NaN coefficients, depending on the LAPACK build.
\* Otherwise the coefficients are the least-squares solution, here as exact
\* quotients slope / den and intercept / den (den # 0: x holds a 0 and a
\* nonzero offset).
Polyfit(x, y) ==
    LET n == Len(x)
        sx == SumSeq(x)
        sy == SumSeq(y)
        sxx == SumSeq(Products(x, x))
        sxy == SumSeq(Products(x, y))
    IN  IF sxx = 0
        THEN { [raised |-> "LinAlgError", tag |-> "nan",
                slope |-> 0, intercept |-> 0, den |-> 1],
               [raised |-> "none", tag |-> "nan",
                slope |-> 0, intercept |-> 0, den |-> 1] }
        ELSE { [raised |-> "none", tag |-> "fit",
                slope |-> n * sxy - sx * sy,
                intercept |-> sy * sxx - sx * sxy,
                den |-> n * sxx - sx * sx] }

\* Line 157: the guard of the trend block.
FitAttempted(view) == Len(view) > 1

----------------------------------------------------------------------------
(* Distribution par annee, line 205.                                       *)

\* The distinct values of a sequence in order of first appearance.
RECURSIVE Unique(_)
Unique(s) ==
    IF s = <<>> THEN <<>>
    ELSE LET rest == Unique(SubSeq(s, 1, Len(s) - 1))
         IN  IF s[Len(s)] \in Range(rest) THEN rest
             ELSE Append(rest, s[Len(s)])

YearGroup(view, year) ==
    LET InYear(row) == row.annee = year
        rows == SelectSeq(view, InYear)
    IN  [annee |-> year,
         mean |-> Quot(SumSeq(Prices(rows)), Len(rows)),
         count |-> Len(rows)]

\* A variant grouping with sort=False: keys in order of first appearance.
GroupByYearUnsorted(view) ==
    LET keys == Unique(Column(view, "annee"))
    IN  [k \in 1..Len(keys) |-> YearGroup(view, keys[k])]

\* groupby('annee')['prix_eur'].agg(['mean', 'count']).reset_index():
\* one row per key that occurs, keys sorted ascending.
GroupByYear(view) ==
    LET keys == SortedSet(Range(Column(view, "annee")))
    IN  [k \in 1..Len(keys) |-> YearGroup(view, keys[k])]

----------------------------------------------------------------------------
(* Tableau de donnees, lines 247-253.                                      *)

\* Line 252: the date column replaced by its text.
Display(view) ==
    [i \in 1..Len(view) |->
        [view[i] EXCEPT !.date_publication = Strftime(@)]]

\* Line 253: sort_values('date_publication', ascending=False) on the text
\* column.  The default sort kind is not stable, so every arrangement in
\* which no row's text is smaller than that of a later row is an outcome.
SortedByDateText(frame) ==
    { [i \in 1..Len(frame) |-> frame[p[i]]] :
        p \in { q \in [1..Len(frame) -> 1..Len(frame)] :
                  /\ \A i, j \in 1..Len(frame) : i # j => q[i] # q[j]
                  /\ \A i, j \in 1..Len(frame) :
                        i < j => ~StrLess(frame[q[i]].date_publication,
                                          frame[q[j]].date_publication) } }

----------------------------------------------------------------------------
(* The run of the script and the user's interactions.                      *)

Init ==
    /\ source \in { [present |-> TRUE, rows |-> f] : f \in Files }
                  \cup { [present |-> FALSE, rows |-> <<>>] }
    /\ cache = [loaded |-> FALSE, value |-> NoFrame, writes |-> 0]
    /\ pc = "load"
    /\ raised = "none"
    /\ shown = "none"
    /\ df = NoFrame
    /\ widgets = NoWidgets
    /\ df_filtered = NoFrame
    /\ date_num = <<>>
    /\ summary = <<>>
    /\ trend = <<>>
    /\ prix_par_annee = <<>>
    /\ df_display = <<>>
    /\ steps = <<>>

\* Lines 34-35: df = load_data().
Load ==
    /\ pc = "load"
    /\ LET r == load_data_cached(cache, source)
       IN  /\ cache' = r.cache
           /\ df' = r.value
           /\ IF r.raised # "none" THEN Fail(r.raised) ELSE Continue
    /\ UNCHANGED <<source, widgets, df_filtered, date_num, summary, trend,
                   prix_par_annee, df_display, steps>>

\* Lines 37-93.
RenderControls ==
    /\ pc = "controls"
    /\ LET r == Controls(df, widgets)
       IN  /\ widgets' = r.value
           /\ IF r.raised # "none" THEN Fail(r.raised) ELSE Continue
    /\ UNCHANGED <<source, cache, df, df_filtered, date_num, summary, trend,
                   prix_par_annee, df_display, steps>>

\* Lines 96-112.
Filter ==
    /\ pc = "filter"
    /\ df_filtered' = ApplyFilters(df, widgets)
    /\ steps' = Append(steps, "filter")
    /\ Continue
    /\ UNCHANGED <<source, cache, df, widgets, date_num, summary, trend,
                   prix_par_annee, df_display>>

\* Lines 115-131.
ShowMetrics ==
    /\ pc = "summary"
    /\ summary' = <<Summarize(df_filtered)>>
    /\ steps' = Append(steps, "summary")
    /\ Continue
    /\ UNCHANGED <<source, cache, df, widgets, df_filtered, date_num, trend,
                   prix_par_annee, df_display>>

\* Lines 133-179: the scatter plot, with the trend line when the view has
\* more than one row.
PlotTrend ==
    /\ pc = "trend"
    /\ IF FitAttempted(df_filtered)
       THEN /\ date_num' = DateNum(df_filtered)
            /\ \E r \in Polyfit(DateNum(df_filtered), Prices(df_filtered)) :
                  IF r.raised # "none"
                  THEN /\ Fail(r.raised)
                       /\ UNCHANGED <<trend, steps>>
                  ELSE /\ trend' = <<[tag |-> r.tag, slope |-> r.slope,
                                      intercept |-> r.intercept,
                                      den |-> r.den]>>
                       /\ steps' = Append(steps, "trend")
                       /\ Continue
       ELSE /\ Continue
            /\ UNCHANGED <<date_num, trend, steps>>
    /\ UNCHANGED <<source, cache, df, widgets, df_filtered, summary,
                   prix_par_annee, df_display>>

\* Lines 182-227.
PlotByYear ==
    /\ pc = "group"
    /\ prix_par_annee' = GroupByYear(df_filtered)
    /\ steps' = Append(steps, "group")
    /\ Continue
    /\ UNCHANGED <<source, cache, df, widgets, df_filtered, date_num, summary,
                   trend, df_display>>

\* Lines 230-280.
ShowTable ==
    /\ pc = "table"
    /\ df_display' \in SortedByDateText(Display(df_filtered))
    /\ steps' = Append(steps, "table")
    /\ Continue
    /\ UNCHANGED <<source, cache, df, widgets, df_filtered, date_num, summary,
                   trend, prix_par_annee>>

\* The script is idle once a run has ended, normally or in an except clause.
Idle == pc \in {"done", "error"}

\* Streamlit re-executes the script from the top with the session's widget
\* values; the page and the script's variables start afresh.
StartRun(w) ==
    /\ Idle
    /\ pc' = Script[1]
    /\ widgets' = w
    /\ raised' = "none"
    /\ shown' = "none"
    /\ df' = NoFrame
    /\ df_filtered' = NoFrame
    /\ date_num' = <<>>
    /\ summary' = <<>>
    /\ trend' = <<>>
    /\ prix_par_annee' = <<>>
    /\ df_display' = <<>>
    /\ steps' = <<>>
    /\ UNCHANGED <<source, cache>>

Rerun == StartRun(widgets)

ChangeDateRange ==
    /\ Idle
    /\ widgets.rendered
    /\ \E r \in DateRanges(cache.value) \ {widgets.date_range} :
          StartRun([widgets EXCEPT !.date_range = r])

ChangeAnneeRange ==
    /\ Idle
    /\ widgets.rendered
    /\ \E r \in SliderRanges(MinOf(Range(Column(cache.value, "annee"))),
                             MaxOf(Range(Column(cache.value, "annee"))), 1)
                \ {widgets.annee_range} :
          StartRun([widgets EXCEPT !.annee_range = r])

ChangeKmRange ==
    /\ Idle
    /\ widgets.rendered
    /\ \E r \in SliderRanges(MinOf(Range(Column(cache.value, "kilometrage_km"))),
                             MaxOf(Range(Column(cache.value, "kilometrage_km"))),
                             KmStep)
                \ {widgets.km_range} :
          StartRun([widgets EXCEPT !.km_range = r])

ChangePrixRange ==
    /\ Idle
    /\ widgets.rendered
    /\ \E r \in SliderRanges(MinOf(Range(Prices(cache.value))),
                             MaxOf(Range(Prices(cache.value))), PrixStep)
                \ {widgets.prix_range} :
          StartRun([widgets EXCEPT !.prix_range = r])

ChangeTypeVendeur ==
    /\ Idle
    /\ widgets.rendered
    /\ \E t \in (SUBSET Range(Column(cache.value, "type_vendeur")))
                \ {widgets.type_vendeur} :
          StartRun([widgets EXCEPT !.type_vendeur = t])

Next ==
    \/ Load
    \/ RenderControls
    \/ Filter
    \/ ShowMetrics
    \/ PlotTrend
    \/ PlotByYear
    \/ ShowTable
    \/ Rerun
    \/ ChangeDateRange
    \/ ChangeAnneeRange
    \/ ChangeKmRange
    \/ ChangePrixRange
    \/ ChangeTypeVendeur

Spec == Init /\ [][Next]_vars

----------------------------------------------------------------------------
(* Properties.                                                             *)

Done(step) == step \in Range(steps)

Indexes(frame) == { frame[i].index : i \in 1..Len(frame) }

InRange(v, r) == r[1] <= v /\ v <= r[2]

\* The four predicates that do not involve the publication date.
PassesOthers(row) ==
    /\ InRange(row.annee, widgets.annee_range)
    /\ InRange(row.kilometrage_km, widgets.km_range)
    /\ InRange(row.prix_eur.val, widgets.prix_range)
    /\ \E t \in widgets.type_vendeur : t = row.type_vendeur

PassesDates(row) ==
    /\ ~DateLess(row.date_publication, widgets.date_range[1])
    /\ ~DateLess(widgets.date_range[2], row.date_publication)

\* The filtered frame holds rows of df only, each at most once.
ViewOfDf ==
    /\ \A j \in 1..Len(df_filtered) : \E i \in 1..Len(df) : df_filtered[j] = df[i]
    /\ \A j, k \in 1..Len(df_filtered) :
          j # k => df_filtered[j].index # df_filtered[k].index

\* C1: with a date range of two dates, a listing is in the filtered view if
\* and only if its date, year, mileage and price lie in their inclusive
\* ranges and its seller type is selected; nothing else is kept, no matching
\* listing is lost.
C1_FilterExact ==
    (Done("filter") /\ Len(widgets.date_range) = 2) =>
        /\ ViewOfDf
        /\ \A i \in 1..Len(df) :
              df[i].index \in Indexes(df_filtered)
                  <=> (PassesDates(df[i]) /\ PassesOthers(df[i]))

C1_Witness ==
    /\ Done("filter")
    /\ Len(widgets.date_range) = 2
    /\ df_filtered # <<>>
    /\ Len(df_filtered) < Len(df)

\* C2: on a view of 0 rows the summary holds no NaN mean price, median price
\* or mean mileage: the empty input is signalled instead.
C2_EmptyInputSignalled ==
    (summary # <<>> /\ Len(df_filtered) = 0) =>
        /\ summary[1].mean_prix.tag # "nan"
        /\ summary[1].median_prix.tag # "nan"
        /\ summary[1].mean_km.tag # "nan"

\* The distinct (date, price) points of the view.
Points ==
    { <<df_filtered[i].date_publication, df_filtered[i].prix_eur.val>> :
        i \in 1..Len(df_filtered) }

\* C3: with fewer than 2 distinct data points in the view the day-offset
\* column is not computed, no fit is made and the run does not fail in the
\* fit.
C3_NoFitBelowTwoPoints ==
    Cardinality(Points) < 2 =>
        /\ date_num = <<>>
        /\ trend = <<>>
        /\ raised # "LinAlgError"

WellFormed(raw) ==
    /\ raw.prix_eur.tag = "int"
    /\ MatchesFormat(raw.date_publication)

\* C4: once a run has loaded an existing data.csv, the load has succeeded
\* and the loaded frame holds exactly the rows whose price and date are
\* present and parsable.
C4_LoadDropsOnlyBadRows ==
    (source.present /\ pc # "load") =>
        /\ cache.loaded
        /\ Indexes(cache.value) =
              { i - 1 : i \in { k \in 1..Len(source.rows) :
                                  WellFormed(source.rows[k]) } }

\* Sum of the prices of the view's rows of one year.
PriceSumOfYear(y) ==
    SumSeq([i \in 1..Len(df_filtered) |->
               IF df_filtered[i].annee = y THEN df_filtered[i].prix_eur.val
               ELSE 0])

RowsOfYear(y) == { i \in 1..Len(df_filtered) : df_filtered[i].annee = y }

\* C5: the per-year grouping lists every model year of the view once, in
\* strictly increasing order, with the number of the view's listings of that
\* year and the mean of their prices; no other year appears.
C5_GroupsByYear ==
    Done("group") =>
        /\ \A k, l \in 1..Len(prix_par_annee) :
              k < l => prix_par_annee[k].annee < prix_par_annee[l].annee
        /\ { prix_par_annee[k].annee : k \in 1..Len(prix_par_annee) }
              = { df_filtered[i].annee : i \in 1..Len(df_filtered) }
        /\ \A k \in 1..Len(prix_par_annee) :
              LET g == prix_par_annee[k]
              IN  /\ g.count = Cardinality(RowsOfYear(g.annee))
                  /\ g.count > 0
                  /\ g.mean.tag = "num"
                  /\ g.mean.num = PriceSumOfYear(g.annee)
                  /\ g.mean.den = g.count

C5_Witness ==
    /\ Done("group")
    /\ Len(prix_par_annee) >= 2
    /\ Len(df_filtered) >= 2

\* The publication date of the listing with a given index label.
DateOfIndex(ix) ==
    (CHOOSE r \in Range(df) : r.index = ix).date_publication

\* C6: in the detail table no row with an earlier publication date stands
\* before a row with a later one.
C6_TableReverseChronological ==
    Done("table") =>
        \A i, j \in 1..Len(df_display) :
            i < j => ~DateLess(DateOfIndex(df_display[i].index),
                               DateOfIndex(df_display[j].index))

\* The four computations of a run in the order a claim gives them.
RespectsOrder(order) ==
    LET four == SelectSeq(steps, LAMBDA x : x \in Range(order))
        Pos(x) == CHOOSE i \in 1..Len(order) : order[i] = x
    IN  \A i, j \in 1..Len(four) : i < j => Pos(four[i]) < Pos(four[j])

\* C7 as stated: filtered view, then summary, then the per-year aggregates,
\* then the trend fit; so a trend fit is never made ahead of the grouping.
C7_OrderAsClaimed ==
    /\ RespectsOrder(<<"filter", "summary", "group", "trend">>)
    /\ (Done("trend") => Done("group"))

\* C7 amended: filtered view, then summary, then the trend fit (made only
\* when the view has more than one row), then the per-year aggregates; a
\* computation starts only after the ones before it have completed.
C7_OrderInCode ==
    /\ RespectsOrder(<<"filter", "summary", "trend", "group">>)
    /\ Done("summary") => Done("filter")
    /\ Done("trend") => (Done("summary") /\ Len(df_filtered) > 1)
    /\ Done("group") =>
          (Done("summary") /\ (Done("trend") <=> Len(df_filtered) > 1))
    /\ pc = "load" => steps = <<>>

C7_Witness ==
    /\ pc = "done"
    /\ Done("trend")
    /\ Done("group")

\* C8: the memo of the loaded frame is stored at most once and never changes
\* afterwards; every run works on that frame, and no step after the load
\* changes the run's frame.
C8_LoadedOnce ==
    [][ /\ cache.loaded => cache' = cache
        /\ cache'.writes <= 1
        /\ (cache.loaded /\ pc = "load") => (pc' # "error" /\ df' = cache.value)
        /\ pc \notin {"load", "done", "error"} => df' = df ]_vars

C8_Witness ==
    /\ pc = "done"
    /\ cache.writes = 1
    /\ df = cache.value
    /\ date_num # <<>>
    /\ Len(widgets.date_range) = 1

\* C9: a run that raised has ended in the error state with a message on
\* screen, the source-missing one for a missing file and the generic one
\* otherwise; a run in the error state has raised.
C9_FailureSurfaced ==
    /\ raised # "none" =>
          /\ pc = "error"
          /\ shown = (IF raised = "FileNotFoundError" THEN "source-missing"
                      ELSE "generic")
    /\ pc = "error" => raised # "none"

C9_Witness ==
    /\ pc = "error"
    /\ raised \in {"ValueError", "LinAlgError"}
    /\ shown = "generic"

\* C10: when date_range does not hold exactly two dates, the filtered view
\* is exactly the listings that pass the year, mileage, price and seller
\* type predicates, whatever their dates.
C10_NoDateMaskWithoutPair ==
    (Done("filter") /\ Len(widgets.date_range) # 2) =>
        /\ ViewOfDf
        /\ \A i \in 1..Len(df) :
              df[i].index \in Indexes(df_filtered) <=> PassesOthers(df[i])

C10_Witness ==
    /\ Done("filter")
    /\ Len(widgets.date_range) = 1
    /\ \E j \in 1..Len(df_filtered) :
          df_filtered[j].date_publication # widgets.date_range[1]

====
